---- MODULE Spec2Model ----
(***************************************************************************)
(* RoomsSDKAdapter (sdk-component-adapter): the room stream cache, the     *)
(* listener gate and the RxJS pipeline built by getRoom:                   *)
(*   concat(from(fetchRoom(ID)), fromEvent(rooms,'updated')                *)
(*            .pipe(filter, flatMap(fetchRoom)))                           *)
(*     .pipe(tap, finalize, publishReplay(1), refCount())                  *)
(* and the BehaviorSubject per room ID that getRoomActivities feeds from   *)
(* mercury's 'event:conversation.activity'.                                *)
(* JavaScript runs one task at a time: every action below is one           *)
(* synchronous run of adapter/RxJS code (a consumer call, an SDK event     *)
(* dispatch, or a promise settlement followed by its reactions).           *)
(***************************************************************************)
EXTENDS Integers, Sequences, FiniteSets, Bags, TLC

\* ---- bounds of the model ----
MaxHandles == 2    \* observables built by getRoom (cache misses)
MaxSubs == 2       \* observers subscribed at the same time
MaxGets == 3       \* rooms.get calls in total
MaxUnderflow == 1  \* listenerCount is followed down to -MaxUnderflow
MaxActivities == 2 \* 'event:conversation.activity' events mercury delivers
MaxWatchers == 2   \* observers of activity channels subscribed at the same time

\* ---- program constants ----
BufferSize == 1    \* publishReplay(1)

Rooms == {"room-1", "room-2"}
Handles == 1..MaxHandles
ROOM_UPDATED_EVENT == "updated"

\* 'updated' events the SDK can trigger: {data: {id}} for a room, or an event
\* that carries no data.
RoomEvents ==
  {[type |-> ROOM_UPDATED_EVENT, data |-> [id |-> K]] : K \in Rooms}
    \cup {[type |-> ROOM_UPDATED_EVENT]}

CONVERSATION_ACTIVITY_EVENT == "event:conversation.activity"

\* The room IDs getRoomActivities is called with.  A hydra ID is the base64 of
\* "ciscospark://<cluster>/<type>/<uuid>": here the segments it encodes.
ActivityRooms ==
  {<<"us", "ROOM", "uuid-1">>, <<"eu", "ROOM", "uuid-1">>, <<"us", "ROOM", "uuid-2">>}

\* deconstructHydraId: decode, split at "/", pop id, type and cluster.
deconstructHydraId(ID) ==
  [id |-> ID[Len(ID)], type |-> ID[Len(ID) - 1], cluster |-> ID[Len(ID) - 2]]

UUIDs == {"uuid-1", "uuid-2", "uuid-3"}

\* What mercury can deliver as 'event:conversation.activity', before its id
\* and time: activities with target, object and actor, and ones that lack one
\* of the three.
ActivityEvents ==
  LET object == [objectType |-> "comment"]
      actor == [id |-> "person-1"]
  IN {[target |-> [id |-> u], object |-> object, actor |-> actor] : u \in UUIDs}
       \cup {[object |-> object, actor |-> actor]}
       \cup {[target |-> [id |-> u], actor |-> actor] : u \in UUIDs}
       \cup {[target |-> [id |-> u], object |-> object] : u \in UUIDs}

VARIABLES
  getRoomObservables, \* this.getRoomObservables: room ID -> handle (0: no entry)
  listenerCount,      \* this.listenerCount
  nHandles,           \* observables built so far; handle h is the h-th
  hID,                \* hID[h]: the ID closed over by handle h
  room,               \* room[h]: state of the promise fetchRoom(ID) behind room$
  initTag,            \* initTag[h]: which rooms.get(ID) call that promise awaits
  conn,               \* conn[h]: the connection of the ConnectableObservable:
                      \*   "none", "room" (subscribed to room$), "updates"
                      \*   (room$ completed, subscribed to roomUpdate$)
  buffer,             \* buffer[h]: the ReplaySubject's buffer
  stopped,            \* stopped[h]: the ReplaySubject has errored
  pending,            \* pending[h]: rooms.get calls in flight inside flatMap
  subs,               \* the subscribed observers, a bag of [h, log]: h the
                      \*   observable subscribed to, log what next() received
  getCalls,           \* getCalls[K]: calls of datasource.rooms.get(K)
  listens,            \* the SDK's side of the gate: rooms.listen calls since the
                      \*   latest rooms.stopListening (0: the SDK is not listening)
  getRoomActivitiesCache, \* this.getRoomActivitiesCache: room ID -> the number of
                      \*   its BehaviorSubject (0: no entry)
  subjects,           \* subjects[c]: the value the c-th BehaviorSubject holds
  handlers,           \* the handlers registered with mercury.on, in order; each
                      \*   is [ID, subject], the variables its closure holds
  watchers,           \* the observers of the BehaviorSubjects, a bag of [c, log]
  nActivities         \* activity events mercury has delivered

activityVars == <<getRoomActivitiesCache, subjects, handlers, watchers, nActivities>>

vars == <<getRoomObservables, listenerCount, nHandles, hID, room, initTag, conn,
          buffer, stopped, pending, subs, getCalls, listens, activityVars>>

RECURSIVE SumOver(_, _)
SumOver(f, S) ==
  IF S = {} THEN 0
  ELSE LET x == CHOOSE y \in S : TRUE IN f[x] + SumOver(f, S \ {x})

TotalGets == SumOver(getCalls, Rooms)

\* ---- datasource.rooms.get and fetchRoom ----
\* What the n-th rooms.get(K) resolves with; the title tells the calls apart.
sdkRoom(K, n) == [id |-> K, title |-> n, type |-> "group"]

\* fetchRoom: {id, title, type} of the SDK room, as {ID, title, type}.
fetchRoom(sdk) == [ID |-> sdk.id, title |-> sdk.title, type |-> sdk.type]

Snapshot(K, n) == fetchRoom(sdkRoom(K, n))

\* ---- the gate ----
\* The gate as a value: the adapter's counter and the SDK's listening state.
Gate == [listenerCount |-> listenerCount, listens |-> listens]

SetGate(g) ==
  /\ listenerCount' = g.listenerCount
  /\ listens' = g.listens

ShouldListen_Always(count) == TRUE

ShouldListen(count) == count = 0

startListeningToRoomUpdates(g) ==
  [listenerCount |-> g.listenerCount + 1,
   listens |-> IF ShouldListen(g.listenerCount) THEN g.listens + 1 ELSE g.listens]

ShouldStop(count) == count <= 0

stopListeningToRoomUpdates(g) ==
  [listenerCount |-> g.listenerCount - 1,
   listens |-> IF ShouldStop(g.listenerCount - 1) THEN 0 ELSE g.listens]

\* ---- the multicast subject ----
\* The observers in B that are subscribed to h, and how many they are.
ObserversOf(B, h) == {o \in BagToSet(B) : o.h = h}

ObserverCountOf(B, h) == SumOver(B, ObserversOf(B, h))

Observers(h) == ObserversOf(subs, h)

ObserverCount(h) == ObserverCountOf(subs, h)

\* ReplaySubject(1).next: keep the last BufferSize values.
Trim(q) == IF Len(q) > BufferSize THEN SubSeq(q, Len(q) - BufferSize + 1, Len(q)) ELSE q

\* subject.next(v) on handle h: buffered, and delivered to every observer.
NextSubs(h, v) ==
  LET F(o) == IF o.h = h THEN [o EXCEPT !.log = Append(@, v)] ELSE o
  IN [x \in {F(o) : o \in DOMAIN subs} |->
        subs[CHOOSE o \in DOMAIN subs : F(o) = x]]

\* subject.error on the handles of H: every observer is notified of the error
\* and is an observer no more.
ErrorSubs(H) == [o \in {x \in DOMAIN subs : x.h \notin H} |-> subs[o]]

\* ---- finalize ----
Evict(cache, ID) == [cache EXCEPT ![ID] = 0]

\* finalize callbacks of the handles of H, one after the other, applied to the
\* gate g and the cache c.
RECURSIVE Finalize(_, _, _)
Finalize(H, g, c) ==
  IF H = {} THEN [gate |-> g, cache |-> c]
  ELSE LET h == CHOOSE x \in H : TRUE
       IN Finalize(H \ {h}, stopListeningToRoomUpdates(g), Evict(c, hID[h]))

\* The connections of the handles of H are unsubscribed: the inner
\* subscriptions go, then the finalize callbacks run.
Teardown(H) ==
  LET f == Finalize(H, Gate, getRoomObservables) IN
  /\ f.gate.listenerCount >= -MaxUnderflow
  /\ conn' = [h \in Handles |-> IF h \in H THEN "none" ELSE conn[h]]
  /\ pending' = [h \in Handles |-> IF h \in H THEN {} ELSE pending[h]]
  /\ SetGate(f.gate)
  /\ getRoomObservables' = f.cache

\* The source of the handles of H errors: ConnectableSubscriber._error
\* unsubscribes the connection, then the subject errors.
ErrorStreams(H) ==
  /\ Teardown(H)
  /\ stopped' = [h \in Handles |-> IF h \in H THEN TRUE ELSE stopped[h]]
  /\ subs' = ErrorSubs(H)

\* A step that does not call the gate.
Quiet == UNCHANGED <<listenerCount, listens>>

\* A promise reaction is queued and has not run yet: a from(promise) was
\* subscribed after its promise settled.
MicrotaskQueued == \E h \in Handles : conn[h] = "room" /\ room[h] # "pending"

Init ==
  /\ getRoomObservables = [K \in Rooms |-> 0]
  /\ listenerCount = 0
  /\ nHandles = 0
  /\ hID = [h \in Handles |-> ""]
  /\ room = [h \in Handles |-> "none"]
  /\ initTag = [h \in Handles |-> 0]
  /\ conn = [h \in Handles |-> "none"]
  /\ buffer = [h \in Handles |-> <<>>]
  /\ stopped = [h \in Handles |-> FALSE]
  /\ pending = [h \in Handles |-> {}]
  /\ subs = EmptyBag
  /\ getCalls = [K \in Rooms |-> 0]
  /\ listens = 0
  /\ getRoomActivitiesCache = [ID \in ActivityRooms |-> 0]
  /\ subjects = <<>>
  /\ handlers = <<>>
  /\ watchers = EmptyBag
  /\ nActivities = 0

\* ---- getRoom(ID) ----
CacheHit_Never(ID) == FALSE

CacheHit(ID) == getRoomObservables[ID] # 0

getRoomHit(ID) ==
  /\ CacheHit(ID)
  /\ UNCHANGED vars

getRoomMiss(ID) ==
  /\ ~CacheHit(ID)
  /\ nHandles < MaxHandles
  /\ TotalGets < MaxGets
  /\ LET h == nHandles + 1 IN
     /\ SetGate(startListeningToRoomUpdates(Gate))
     /\ getCalls' = [getCalls EXCEPT ![ID] = @ + 1]
     /\ nHandles' = h
     /\ hID' = [hID EXCEPT ![h] = ID]
     /\ room' = [room EXCEPT ![h] = "pending"]
     /\ initTag' = [initTag EXCEPT ![h] = getCalls[ID] + 1]
     /\ getRoomObservables' = [getRoomObservables EXCEPT ![ID] = h]
  /\ UNCHANGED <<conn, buffer, stopped, pending, subs>>
  /\ UNCHANGED activityVars

getRoom(ID) == getRoomHit(ID) \/ getRoomMiss(ID)

\* ---- observable.subscribe(): refCount over publishReplay(1) ----
Replay_Nothing(h) == <<>>

\* What the ReplaySubject hands a new subscriber at once.
Replay(h) == buffer[h]

\* refCount connects the source when there is no connection.
MustConnect(h) == conn[h] = "none"

\* On an errored subject the subscriber gets the buffer and the error at once:
\* it never is an observer, and nothing connects.
Subscribe(h) ==
  /\ h \in 1..nHandles
  /\ BagCardinality(subs) < MaxSubs
  /\ IF stopped[h]
       THEN /\ subs' = subs
            /\ conn' = conn
       ELSE /\ subs' = subs (+) SetToBag({[h |-> h, log |-> Replay(h)]})
            /\ conn' = IF MustConnect(h) THEN [conn EXCEPT ![h] = "room"] ELSE conn
  /\ Quiet
  /\ UNCHANGED <<getRoomObservables, nHandles, hID, room, initTag, buffer, stopped,
                 pending, getCalls>>
  /\ UNCHANGED activityVars

\* ---- subscription.unsubscribe() ----
LastObserver_Any(o) == TRUE

\* refCount drops to 0 with this unsubscribe.
LastObserver(o) == ObserverCount(o.h) = 1

Unsubscribe(o) ==
  /\ o \in BagToSet(subs)
  /\ subs' = subs (-) SetToBag({o})
  /\ IF LastObserver(o)
       THEN Teardown({o.h})
       ELSE Quiet /\ UNCHANGED <<conn, pending, getRoomObservables>>
  /\ UNCHANGED <<nHandles, hID, room, initTag, buffer, stopped, getCalls>>
  /\ UNCHANGED activityVars

\* ---- room$ = from(fetchRoom(ID)) ----
\* room$ emits the room and completes; concat then subscribes roomUpdate$.
EmitRoom(h) ==
  LET v == Snapshot(hID[h], initTag[h]) IN
  /\ buffer' = [buffer EXCEPT ![h] = Trim(Append(@, v))]
  /\ subs' = NextSubs(h, v)
  /\ conn' = [conn EXCEPT ![h] = "updates"]
  /\ Quiet
  /\ UNCHANGED <<getRoomObservables, stopped, pending>>

\* rooms.get of the initial fetch resolves; a subscribed room$ reacts at once.
ResolveRoom(h) ==
  /\ ~MicrotaskQueued
  /\ room[h] = "pending"
  /\ room' = [room EXCEPT ![h] = "resolved"]
  /\ IF conn[h] = "room"
       THEN EmitRoom(h)
       ELSE Quiet /\ UNCHANGED <<buffer, subs, conn, getRoomObservables, stopped, pending>>
  /\ UNCHANGED <<nHandles, hID, initTag, getCalls>>
  /\ UNCHANGED activityVars

\* rooms.get of the initial fetch rejects.
RejectRoom(h) ==
  /\ ~MicrotaskQueued
  /\ room[h] = "pending"
  /\ room' = [room EXCEPT ![h] = "rejected"]
  /\ IF conn[h] = "room"
       THEN ErrorStreams({h})
       ELSE Quiet /\ UNCHANGED <<subs, conn, getRoomObservables, stopped, pending>>
  /\ UNCHANGED <<nHandles, hID, initTag, buffer, getCalls>>
  /\ UNCHANGED activityVars

\* The reaction of a room$ subscribed after its promise had settled.
DeliverRoom(h) ==
  /\ conn[h] = "room"
  /\ room[h] # "pending"
  /\ IF room[h] = "resolved"
       THEN EmitRoom(h)
       ELSE ErrorStreams({h}) /\ buffer' = buffer
  /\ UNCHANGED <<nHandles, hID, room, initTag, getCalls>>
  /\ UNCHANGED activityVars

\* ---- roomUpdate$ = fromEvent(rooms, 'updated').pipe(filter, flatMap) ----
\* event.data.id on an event without data throws a TypeError.
FilterThrows(event) == "data" \notin DOMAIN event

FilterMatch_All(event, ID) == TRUE

FilterMatch(event, ID) == event.data.id = ID

Listeners == {h \in Handles : conn[h] = "updates"}

\* The SDK triggers 'updated': every fromEvent listener runs, in turn.  A
\* predicate that throws errors its stream; a match starts fetchRoom(ID).
\* Listeners of one ID call rooms.get in handle order.
RoomUpdated(event) ==
  /\ ~MicrotaskQueued
  /\ IF FilterThrows(event)
       THEN /\ ErrorStreams(Listeners)
            /\ UNCHANGED getCalls
       ELSE LET Pass == {h \in Listeners : FilterMatch(event, hID[h])}
                Rank(h) == Cardinality({x \in Pass : hID[x] = hID[h] /\ x <= h})
                Calls(K) == Cardinality({x \in Pass : hID[x] = K})
            IN /\ TotalGets + Cardinality(Pass) <= MaxGets
               /\ getCalls' = [K \in Rooms |-> getCalls[K] + Calls(K)]
               /\ pending' = [h \in Handles |->
                                IF h \in Pass
                                  THEN pending[h] \cup {getCalls[hID[h]] + Rank(h)}
                                  ELSE pending[h]]
               /\ Quiet
               /\ UNCHANGED <<subs, conn, stopped, getRoomObservables>>
  /\ UNCHANGED <<nHandles, hID, room, initTag, buffer>>
  /\ UNCHANGED activityVars

\* A re-fetch resolves: flatMap emits its room.
ResolveUpdate(h, n) ==
  /\ ~MicrotaskQueued
  /\ n \in pending[h]
  /\ LET v == Snapshot(hID[h], n) IN
     /\ buffer' = [buffer EXCEPT ![h] = Trim(Append(@, v))]
     /\ subs' = NextSubs(h, v)
  /\ pending' = [pending EXCEPT ![h] = @ \ {n}]
  /\ Quiet
  /\ UNCHANGED <<getRoomObservables, nHandles, hID, room, initTag, conn, stopped,
                 getCalls>>
  /\ UNCHANGED activityVars

\* A re-fetch rejects: the stream errors.
RejectUpdate(h, n) ==
  /\ ~MicrotaskQueued
  /\ n \in pending[h]
  /\ ErrorStreams({h})
  /\ UNCHANGED <<nHandles, hID, room, initTag, buffer, getCalls>>
  /\ UNCHANGED activityVars

\* ---- getRoomActivities(ID) ----
\* new BehaviorSubject({}): the value it starts with.
Placeholder == [k \in {} |-> k]

ActivityCacheHit_Never(ID) == FALSE

ActivityCacheHit(ID) == getRoomActivitiesCache[ID] # 0

getRoomActivitiesHit(ID) ==
  /\ ActivityCacheHit(ID)
  /\ UNCHANGED vars

getRoomActivitiesMiss(ID) ==
  /\ ~ActivityCacheHit(ID)
  /\ LET c == Len(subjects) + 1 IN
     /\ subjects' = Append(subjects, Placeholder)
     /\ handlers' = Append(handlers, [ID |-> ID, subject |-> c])
     /\ getRoomActivitiesCache' = [getRoomActivitiesCache EXCEPT ![ID] = c]
  /\ UNCHANGED <<watchers, nActivities>>
  /\ UNCHANGED <<getRoomObservables, listenerCount, nHandles, hID, room, initTag,
                 conn, buffer, stopped, pending, subs, getCalls, listens>>

getRoomActivities(ID) == getRoomActivitiesHit(ID) \/ getRoomActivitiesMiss(ID)

\* ---- the BehaviorSubject ----
CurrentValue_Initial(c) == Placeholder

\* What a BehaviorSubject hands a new subscriber at once: its value.
CurrentValue(c) == subjects[c]

SubscribeActivities(c) ==
  /\ c \in DOMAIN subjects
  /\ BagCardinality(watchers) < MaxWatchers
  /\ watchers' = watchers (+) SetToBag({[c |-> c, log |-> <<CurrentValue(c)>>]})
  /\ UNCHANGED <<getRoomActivitiesCache, subjects, handlers, nActivities>>
  /\ UNCHANGED <<getRoomObservables, listenerCount, nHandles, hID, room, initTag,
                 conn, buffer, stopped, pending, subs, getCalls, listens>>

UnsubscribeActivities(w) ==
  /\ w \in BagToSet(watchers)
  /\ watchers' = watchers (-) SetToBag({w})
  /\ UNCHANGED <<getRoomActivitiesCache, subjects, handlers, nActivities>>
  /\ UNCHANGED <<getRoomObservables, listenerCount, nHandles, hID, room, initTag,
                 conn, buffer, stopped, pending, subs, getCalls, listens>>

\* ---- the handler of 'event:conversation.activity' ----
TargetMatch_Any(sdkActivity, ID) == TRUE

\* sdkActivity.target && sdkActivity.target.id === UUID
TargetMatch(sdkActivity, ID) ==
  /\ "target" \in DOMAIN sdkActivity
  /\ sdkActivity.target.id = deconstructHydraId(ID).id

\* sdkActivity.object.objectType, sdkActivity.actor.id on an activity without
\* object or actor throws a TypeError.
ActivityThrows(sdkActivity) ==
  "object" \notin DOMAIN sdkActivity \/ "actor" \notin DOMAIN sdkActivity

Activity(sdkActivity) ==
  [ID |-> sdkActivity.id,
   roomID |-> sdkActivity.target.id,
   content |-> sdkActivity.object,
   contentType |-> sdkActivity.object.objectType,
   personID |-> sdkActivity.actor.id,
   displayAuthor |-> FALSE,
   created |-> sdkActivity.published]

\* Mercury delivers an activity: the registered handlers run.  A handler whose
\* ID matches builds the activity and calls next() on its subject, or throws
\* while building it; the later handlers get the same activity, so whether
\* mercury still runs them after a throw changes nothing.
MercuryActivity(event) ==
  /\ nActivities < MaxActivities
  /\ nActivities' = nActivities + 1
  /\ LET sdkActivity ==
           [x \in DOMAIN event \cup {"id", "published"} |->
              IF x \in DOMAIN event THEN event[x] ELSE nActivities + 1]
         Emitting == {handlers[i].subject : i \in
                        {j \in DOMAIN handlers :
                           /\ TargetMatch(sdkActivity, handlers[j].ID)
                           /\ ~ActivityThrows(sdkActivity)}}
         F(w) == IF w.c \in Emitting
                   THEN [w EXCEPT !.log = Append(@, Activity(sdkActivity))] ELSE w
     IN /\ subjects' = [c \in DOMAIN subjects |->
                          IF c \in Emitting THEN Activity(sdkActivity) ELSE subjects[c]]
        /\ watchers' = [x \in {F(w) : w \in DOMAIN watchers} |->
                          watchers[CHOOSE w \in DOMAIN watchers : F(w) = x]]
  /\ UNCHANGED <<getRoomActivitiesCache, handlers>>
  /\ UNCHANGED <<getRoomObservables, listenerCount, nHandles, hID, room, initTag,
                 conn, buffer, stopped, pending, subs, getCalls, listens>>

Next ==
  \/ \E ID \in Rooms : getRoom(ID)
  \/ \E h \in Handles : Subscribe(h)
  \/ \E o \in BagToSet(subs) : Unsubscribe(o)
  \/ \E h \in Handles : ResolveRoom(h)
  \/ \E h \in Handles : RejectRoom(h)
  \/ \E h \in Handles : DeliverRoom(h)
  \/ \E event \in RoomEvents : RoomUpdated(event)
  \/ \E h \in Handles : \E n \in pending[h] : ResolveUpdate(h, n)
  \/ \E h \in Handles : \E n \in pending[h] : RejectUpdate(h, n)

Spec == Init /\ [][Next]_vars

\* The activity side of the adapter: getRoomActivities, its observers, mercury.
ActivityNext ==
  \/ \E ID \in ActivityRooms : getRoomActivities(ID)
  \/ \E c \in DOMAIN subjects : SubscribeActivities(c)
  \/ \E w \in BagToSet(watchers) : UnsubscribeActivities(w)
  \/ \E event \in ActivityEvents : MercuryActivity(event)

ActivitySpec == Init /\ [][ActivityNext]_vars

TypeOK ==
  /\ getRoomObservables \in [Rooms -> 0..MaxHandles]
  /\ listenerCount \in -MaxUnderflow..MaxHandles
  /\ nHandles \in 0..MaxHandles
  /\ \A h \in Handles : conn[h] \in {"none", "room", "updates"}
  /\ \A h \in Handles : room[h] \in {"none", "pending", "resolved", "rejected"}
  /\ \A h \in Handles : Len(buffer[h]) <= BufferSize
  /\ IsABag(subs) /\ BagCardinality(subs) <= MaxSubs
  /\ listens \in 0..1
  /\ getRoomActivitiesCache \in [ActivityRooms -> 0..Cardinality(ActivityRooms)]
  /\ Len(subjects) = Len(handlers)
  /\ IsABag(watchers) /\ BagCardinality(watchers) <= MaxWatchers
  /\ nActivities \in 0..MaxActivities


\* ---------------------------------------------------------------------------
\* Properties
\* ---------------------------------------------------------------------------
Last(q) == q[Len(q)]

Cached(h) == hID[h] # "" /\ getRoomObservables[hID[h]] = h

\* The observers that subscribe in this step.
Joiners == {o \in DOMAIN subs' : subs' = subs (+) SetToBag({o})}

\* getRoom builds a new observable in this step.
Built == nHandles' > nHandles

\* The handles whose observer count goes from >= 1 to 0 in this step.
Drained ==
  {h \in Handles : ObserverCountOf(subs, h) >= 1 /\ ObserverCountOf(subs', h) = 0}

\* The observers of h in B, with their numbers.
Audience(B, h) == [o \in ObserversOf(B, h) |-> B[o]]

\* B after the snapshot v has reached every observer of h.
Delivered(B, h, v) ==
  LET F(o) == IF o.h = h THEN [o EXCEPT !.log = Append(@, v)] ELSE o
  IN [x \in {F(o) : o \in DOMAIN B} |-> B[CHOOSE o \in DOMAIN B : F(o) = x]]

UpdatedEvent(K) == [type |-> ROOM_UPDATED_EVENT, data |-> [id |-> K]]

MalformedEvent == [type |-> ROOM_UPDATED_EVENT]

\* The snapshot v, received from handle h, is the one of h's initial fetch.
IsInitial(h, v) == v.title = initTag[h]

\* C1: while an entry for K is cached, getRoom(K) builds no new observable and
\* leaves the entry as it is (the entry only ever goes away by eviction), and a
\* subscription calls neither rooms.get nor the gate; building an observable
\* costs exactly one rooms.get(K) and one listenerCount increment.  Hence a
\* cached entry whose initial fetch is pending, and which is the only
\* observable ever built for its ID, has seen exactly one rooms.get(K).
C1_OneFetchOneAcquire ==
  [][ /\ \A K \in Rooms : getRoomObservables[K] # 0 =>
           /\ ~(Built /\ hID'[nHandles'] = K)
           /\ getRoomObservables'[K] \in {getRoomObservables[K], 0}
      /\ Joiners # {} =>
           /\ getCalls' = getCalls
           /\ listenerCount' = listenerCount
           /\ getRoomObservables' = getRoomObservables
      /\ Built =>
           /\ nHandles' = nHandles + 1
           /\ getCalls' = [getCalls EXCEPT ![hID'[nHandles']] = @ + 1]
           /\ listenerCount' = listenerCount + 1
      /\ \A h \in Handles :
           (/\ Cached(h)' /\ room'[h] = "pending"
            /\ \A g \in Handles \ {h} : hID'[g] # hID'[h])
           => getCalls'[hID'[h]] = 1
    ]_vars

\* Two observers on a cached entry whose initial fetch is pending: one
\* rooms.get, one acquire.
C1_Witness ==
  \E h \in Handles :
    /\ Cached(h) /\ room[h] = "pending"
    /\ ObserverCount(h) >= 2
    /\ getCalls[hID[h]] = 1 /\ listenerCount = 1

\* C2: in every step, each handle whose observer count goes from >= 1 to 0
\* has its ID's entry removed, and listenerCount goes down by exactly one per
\* such handle (and by nothing else); the next getRoom(K) on the removed entry
\* calls rooms.get(K) once more and acquires once more.
C2_TeardownOnce ==
  [][ /\ \A h \in Drained : getRoomObservables'[hID[h]] = 0
      /\ listenerCount' =
           listenerCount + (IF Built THEN 1 ELSE 0) - Cardinality(Drained)
      /\ \A K \in Rooms :
           (getRoomObservables[K] = 0 /\ getRoomObservables'[K] # 0) =>
             /\ getCalls'[K] = getCalls[K] + 1
             /\ listenerCount' = listenerCount + 1
             /\ room'[getRoomObservables'[K]] = "pending"
    ]_vars

\* An observable torn down by its last unsubscribe while its initial fetch was
\* still pending, and a later getRoom of the same ID that fetched afresh.
C2_Witness ==
  \E g, h \in Handles :
    /\ g < h /\ hID[g] = hID[h] /\ Cached(h)
    /\ ~stopped[g] /\ room[g] = "pending" /\ conn[g] = "none"
    /\ getCalls[hID[h]] = 2 /\ listenerCount = 1

\* C3: rooms.stopListening is never invoked (the SDK never goes from listening
\* to not listening) while some room stream still has a subscribed observer.
C3_StopOnlyAfterLastTeardown ==
  [][ (listens > 0 /\ listens' = 0) => subs' = EmptyBag ]_vars

\* C4: rooms.listen is never invoked twice without a rooms.stopListening in
\* between, and it has been invoked (once) whenever listenerCount is positive.
C4_ListenOnce ==
  /\ listens <= 1
  /\ listenerCount >= 1 => listens = 1

\* Two room IDs active at once after a single rooms.listen.
C4_Witness ==
  /\ listens = 1 /\ listenerCount = 2
  /\ \A K \in Rooms : getRoomObservables[K] # 0

\* C5: listenerCount is never negative.
C5_NeverNegative == listenerCount >= 0

\* C6: an observer that subscribes to a handle that has observers which have
\* received a snapshot receives at once exactly the snapshot they received
\* last, and rooms.get is not called; every later snapshot reaches all the
\* observers of its handle alike (a step that changes what observers have
\* received appends one snapshot for every observer of one handle).
C6_LateObserverReplay ==
  [][ /\ \A o \in Joiners :
           \A t \in Observers(o.h) : t.log # <<>> =>
             /\ o.log = <<Last(t.log)>>
             /\ getCalls' = getCalls
      /\ (subs' # subs /\ BagCardinality(subs') = BagCardinality(subs)) =>
           \E h \in Handles : \E o \in ObserversOf(subs', h) :
             /\ o.log # <<>>
             /\ subs' = Delivered(subs, h, Last(o.log))
    ]_vars

\* An observer that joined after the update-derived snapshot, next to one that
\* has been there since the initial one.
C6_Witness ==
  \E o, t \in BagToSet(subs) :
    /\ o.h = t.h
    /\ Len(t.log) >= 2
    /\ o.log = <<Last(t.log)>>

\* C7: an 'updated' event for K2 starts no rooms.get(K1), K1 # K2, and touches
\* no observable of K1 (its pending fetches, its buffer, its observers); and
\* every snapshot an observer receives carries the ID of its own observable.
C7_OtherRoomsUntouched ==
  [][ /\ \A K2 \in Rooms : RoomUpdated(UpdatedEvent(K2)) =>
           \A K1 \in Rooms \ {K2} :
             /\ getCalls'[K1] = getCalls[K1]
             /\ \A h \in Handles : hID[h] = K1 =>
                  /\ pending'[h] = pending[h]
                  /\ buffer'[h] = buffer[h]
                  /\ Audience(subs', h) = Audience(subs, h)
      /\ \A o \in BagToSet(subs') :
           \A i \in DOMAIN o.log : o.log[i].ID = hID'[o.h]
    ]_vars

\* Both rooms have a listening observable with an observer; an event has
\* started a re-fetch for one of them and nothing for the other.
C7_Witness ==
  \E g, h \in Handles :
    /\ hID[g] # hID[h] /\ conn[g] = "updates" /\ conn[h] = "updates"
    /\ ObserverCount(g) >= 1 /\ ObserverCount(h) >= 1
    /\ pending[h] # {} /\ pending[g] = {}
    /\ getCalls[hID[g]] = 1

\* C8: in what a subscription receives, no update-derived snapshot comes
\* before the snapshot of the initial fetch.
C8_InitialFirst ==
  \A o \in BagToSet(subs) :
    \A i, j \in DOMAIN o.log :
      i < j => ~(~IsInitial(o.h, o.log[i]) /\ IsInitial(o.h, o.log[j]))

\* C9: when rooms.get rejects (the initial fetch of h, or a re-fetch of h),
\* the stream of h has errored and has no observer left, the gate is released
\* once and the entry of its ID is gone; other observables are as they were.
C9_RejectionTearsDown ==
  [][ \A h \in Handles :
        (\/ (room[h] = "pending" /\ room'[h] = "rejected")
         \/ (\E n \in pending[h] : RejectUpdate(h, n)))
        => /\ stopped'[h]
           /\ ObserversOf(subs', h) = {}
           /\ listenerCount' = listenerCount - 1
           /\ getRoomObservables'[hID[h]] = 0
           /\ \A g \in Handles \ {h} :
                /\ conn'[g] = conn[g] /\ stopped'[g] = stopped[g]
                /\ Audience(subs', g) = Audience(subs, g)
    ]_vars

\* C10: an 'updated' event without data is dropped: no stream terminates and
\* no observer is closed by it.
C10_MalformedDropped ==
  [][ RoomUpdated(MalformedEvent) =>
        /\ stopped' = stopped
        /\ conn' = conn
        /\ subs' = subs
    ]_vars

\* The IDs getRoomActivities has been called with.
Requested == {ID \in ActivityRooms : getRoomActivitiesCache[ID] # 0}

\* The handlers registered for ID.
HandlersOf(ID) == {i \in DOMAIN handlers : handlers[i].ID = ID}

\* The observers that subscribe to an activity channel in this step.
ActivityJoiners == {w \in DOMAIN watchers' : watchers' = watchers (+) SetToBag({w})}

\* Mercury delivers an activity in this step.
Delivery == nActivities' = nActivities + 1

\* The activity mercury delivers when it delivers event in this step.
Delivering(event) ==
  [x \in DOMAIN event \cup {"id", "published"} |->
     IF x \in DOMAIN event THEN event[x] ELSE nActivities']

\* The activity has a target, an object and an actor.
Complete(event) == {"target", "object", "actor"} \subseteq DOMAIN event

\* C11: getRoomActivities(K) returns the same channel on every call (the entry
\* of K, once there, never changes), exactly one handler is registered for
\* every ID requested and none for any other, so that the handlers are as many
\* as the IDs requested; and no handler is ever removed or replaced.
C11_OneHandlerPerID ==
  [][ /\ \A K \in Requested : getRoomActivitiesCache'[K] = getRoomActivitiesCache[K]
      /\ \A K \in ActivityRooms :
           Cardinality(HandlersOf(K))' = (IF K \in Requested' THEN 1 ELSE 0)
      /\ \A K \in Requested' : \A i \in HandlersOf(K)' :
           handlers'[i].subject = getRoomActivitiesCache'[K]
      /\ Len(handlers') = Cardinality(Requested')
      /\ Len(handlers') >= Len(handlers)
      /\ SubSeq(handlers', 1, Len(handlers)) = handlers
    ]_vars

\* Every ID has been requested, activities have been delivered, and the three
\* handlers are still registered.
C11_Witness ==
  /\ Requested = ActivityRooms
  /\ Len(handlers) = Cardinality(ActivityRooms)
  /\ nActivities >= 1
  /\ \E c \in DOMAIN subjects : subjects[c] # Placeholder

\* C12: when mercury delivers an activity, the channel of every requested K
\* emits exactly if the activity has a target whose id is the decoded key of
\* K; otherwise the channel emits nothing and keeps its latest value.
C12_EmittedIffTargetMatches ==
  [][ \A event \in ActivityEvents : MercuryActivity(event) =>
        \A K \in Requested :
          LET c == getRoomActivitiesCache[K]
              matches == /\ "target" \in DOMAIN event
                         /\ event.target.id = deconstructHydraId(K).id
          IN /\ matches => /\ subjects'[c] # subjects[c]
                           /\ subjects'[c].ID = nActivities'
             /\ ~matches => /\ subjects'[c] = subjects[c]
                            /\ \A w \in BagToSet(watchers') : w.c = c =>
                                 w \in BagToSet(watchers)
    ]_vars

\* C13: an observer that subscribes to the channel of K receives at once the
\* value the channel holds, and nothing else; that value is the placeholder
\* when the channel is created and from then on the record of the latest
\* activity emitted on it, observers or not; and every observer has received
\* each record emitted since it subscribed (its last value is the channel's).
C13_LatestOnSubscribe ==
  [][ /\ \A w \in ActivityJoiners : w.log = <<subjects[w.c]>>
      /\ \A c \in DOMAIN subjects' \ DOMAIN subjects : subjects'[c] = Placeholder
      /\ \A c \in DOMAIN subjects :
           \/ subjects'[c] = subjects[c]
           \/ /\ Delivery
              /\ \E event \in ActivityEvents :
                   /\ Complete(event)
                   /\ subjects'[c] = Activity(Delivering(event))
      /\ \A event \in ActivityEvents :
           (MercuryActivity(event) /\ Complete(event))
           => \A K \in Requested :
                event.target.id = deconstructHydraId(K).id =>
                  subjects'[getRoomActivitiesCache[K]] = Activity(Delivering(event))
      /\ \A w \in BagToSet(watchers') :
           /\ w.log # <<>>
           /\ w.log[Len(w.log)] = subjects'[w.c]
      /\ \A w \in BagToSet(watchers) : \A c \in DOMAIN subjects :
           (w.c = c /\ subjects'[c] # subjects[c]) =>
             [w EXCEPT !.log = Append(@, subjects'[c])] \in BagToSet(watchers')
    ]_vars

\* A channel that emitted while nobody observed it, and an observer that
\* subscribed afterwards and has received exactly the latest record; and an
\* observer of a channel that has not emitted, with exactly the placeholder.
C13_Witness ==
  /\ nActivities = 2
  /\ \E w \in BagToSet(watchers) :
       /\ Len(w.log) = 1
       /\ w.log[1] # Placeholder
       /\ w.log[1].ID = 2
  /\ \E w \in BagToSet(watchers) : w.log = <<Placeholder>>

\* The observable of h has been connected: it has had an observer.
Observed(h) == conn[h] # "none" \/ stopped[h]

\* C14: an entry is cached for K, and the gate is held for it, only once the
\* stream of K has had an observer: no cached observable has never been
\* subscribed, and listenerCount counts no more than the observed streams.
C14_CreatedOnFirstSubscribe ==
  /\ \A h \in Handles : Cached(h) => Observed(h)
  /\ listenerCount <= Cardinality({h \in Handles : Cached(h) /\ Observed(h)})

\* The stream of h has emitted its initial snapshot, listens for updates and
\* has an observer.
Live(h) == conn[h] = "updates" /\ ObserverCount(h) >= 1

\* The rooms.get(K) calls an 'updated' event for K triggers in this state: one
\* by every fromEvent listener whose filter lets the event pass.
FetchesOnUpdate(K) ==
  Cardinality({h \in Listeners : ~FilterThrows(UpdatedEvent(K))
                                  /\ FilterMatch(UpdatedEvent(K), hID[h])})

\* C15: while the stream of K has emitted its initial snapshot and has an
\* observer, an 'updated' event for K triggers exactly one rooms.get(K), and
\* when that call resolves its snapshot is emitted once to every observer of
\* the stream.
C15_OneFetchPerUpdate ==
  [][ \A h \in Handles : Live(h) =>
        /\ FetchesOnUpdate(hID[h]) = 1
        /\ RoomUpdated(UpdatedEvent(hID[h])) =>
             /\ getCalls'[hID[h]] = getCalls[hID[h]] + 1
             /\ \E n \in pending'[h] :
                  n \notin pending[h] /\ pending'[h] = pending[h] \cup {n}
        /\ \A n \in pending[h] : ResolveUpdate(h, n) =>
             subs' = Delivered(subs, h, Snapshot(hID[h], n))
    ]_vars

\* The handles whose connection is torn down in this step.
TornDown == {h \in Handles : conn[h] # "none" /\ conn'[h] = "none"}

\* C16: the teardown of a handle evicts only that handle: when a handle of K
\* is torn down while the entry of K holds another handle, which is not torn
\* down in the step, that entry stays cached and its gate reference is not
\* released.
C16_TeardownEvictsOwnEntry ==
  [][ \A h \in TornDown :
        LET newer == getRoomObservables[hID[h]] IN
        (newer # 0 /\ newer \notin TornDown) =>
          /\ getRoomObservables'[hID[h]] = newer
          /\ (\A g \in TornDown : ~Cached(g)) => listenerCount' = listenerCount
    ]_vars

\* C17: listenerCount is the number of entries of getRoomObservables.
C17_CountIsCacheSize ==
  listenerCount = Cardinality({K \in Rooms : getRoomObservables[K] # 0})

\* getRoom(K) has been called and its rooms.get(K) has not resolved yet.
AwaitingInitial(K) ==
  \E h \in Handles : Cached(h) /\ hID[h] = K /\ room[h] = "pending"

\* C18: an 'updated' event for K that arrives after getRoom(K) and before its
\* rooms.get(K) has resolved calls no rooms.get(K), leaves no fetch of K in
\* flight that could emit later, and emits nothing.
C18_NoRefetchBeforeInitial ==
  [][ \A K \in Rooms :
        (AwaitingInitial(K) /\ RoomUpdated(UpdatedEvent(K))) =>
          /\ getCalls'[K] = getCalls[K]
          /\ \A h \in Handles : hID[h] = K => pending'[h] = pending[h]
          /\ subs' = subs
    ]_vars

\* C19: the update-derived snapshots an observer receives come in the order in
\* which their rooms.get calls were triggered (the title of a snapshot is the
\* number of its call), and so does what the buffer replays: it never holds
\* the result of a call triggered before one whose result was emitted already.
C19_UpdatesInEventOrder ==
  /\ \A o \in BagToSet(subs) :
       \A i, j \in DOMAIN o.log :
         (i < j /\ ~IsInitial(o.h, o.log[i]) /\ ~IsInitial(o.h, o.log[j]))
           => o.log[i].title < o.log[j].title
  /\ \A o \in BagToSet(subs) :
       \A i \in DOMAIN o.log : \A j \in DOMAIN buffer[o.h] :
         (~IsInitial(o.h, o.log[i]) /\ ~IsInitial(o.h, buffer[o.h][j]))
           => o.log[i].title <= buffer[o.h][j].title

====
